---- MODULE Spec2Model ----
(***************************************************************************)
(* WordPeek (src/wordpeek.py): a global hotkey copies the selection, the   *)
(* UI thread asks for confirmation, a background thread queries the        *)
(* dictionary provider, and the UI thread presents the result.             *)
(*                                                                         *)
(* A Python str is modelled as a sequence of atoms.  An atom is a piece of *)
(* text that is never split: a literal fragment of a format string, one    *)
(* clipboard character, one decimal digit, or one opaque piece of provider *)
(* data.  The newline is always an atom of its own ("\n"), so that lines   *)
(* can be recovered from a joined text.  Concatenation is \o.              *)
(***************************************************************************)
EXTENDS Integers, Sequences, FiniteSets, TLC

(***************************************************************************)
(* Bounds of the model.                                                    *)
(***************************************************************************)
MaxPress == 2        \* hotkey presses (independent request pipelines)
MaxPad == 1          \* whitespace characters around the copied text
MaxBodySize == 5     \* JSON nodes (entries, phonetics, meanings, definitions) in a 200 body
MaxWindows == 3      \* result windows in the registry of the removal harness

Req == 1 .. MaxPress

(***************************************************************************)
(* Python values: a str, None, or a raised exception carrying a message.   *)
(***************************************************************************)
PyStr(s) == [raised |-> FALSE, none |-> FALSE, s |-> s]
PyNone == [raised |-> FALSE, none |-> TRUE, s |-> <<>>]
PyRaise(msg) == [raised |-> TRUE, none |-> FALSE, s |-> msg]

NL == "\n"
SURROGATE == "\\ud800"          \* a lone surrogate: not encodable as UTF-8
WhiteSpace == {" ", NL}

\* str(n) for n >= 0: the decimal digits, most significant first.
DigitChar == <<"0", "1", "2", "3", "4", "5", "6", "7", "8", "9">>
RECURSIVE Digits(_)
Digits(n) == IF n < 10 THEN <<DigitChar[n + 1]>>
             ELSE Digits(n \div 10) \o <<DigitChar[(n % 10) + 1]>>

\* sep.join(parts)
RECURSIVE Join(_, _)
Join(sep, parts) ==
    IF parts = <<>> THEN <<>>
    ELSE IF Len(parts) = 1 THEN parts[1]
    ELSE parts[1] \o sep \o Join(sep, Tail(parts))

\* s.startswith(prefix), for a prefix that is one literal atom
StartsWith(s, prefix) == Len(s) > 0 /\ s[1] = prefix

\* s.split(":", 1)[1] for s = "__ERROR__:" + e: everything after the marker
AfterMarker(s) == Tail(s)

\* s.strip(): leading and trailing whitespace removed
RECURSIVE LStrip(_)
LStrip(s) == IF s # <<>> /\ Head(s) \in WhiteSpace THEN LStrip(Tail(s)) ELSE s
RECURSIVE RStrip(_)
RStrip(s) == IF s # <<>> /\ s[Len(s)] \in WhiteSpace
             THEN RStrip(SubSeq(s, 1, Len(s) - 1)) ELSE s
\* (mutant) only the leading whitespace is removed
Strip_LeadingOnly(s) == LStrip(s)
Strip(s) == RStrip(LStrip(s))

\* d.get(key, default) and "key in d" for a JSON object (a function on its keys)
Has(d, key) == key \in DOMAIN d
Get(d, key, default) == IF key \in DOMAIN d THEN d[key] ELSE default

\* requests.utils.quote(word): encodes the text as UTF-8, which raises on a
\* lone surrogate.
Quotable(word) == \A i \in 1 .. Len(word) : word[i] # SURROGATE

(***************************************************************************)
(* The dictionary provider's answer to one GET (an external collaborator): *)
(* the request raises (connection error, timeout), or it returns a status  *)
(* and, for a 200, a body whose traversal either raises (malformed) or     *)
(* yields a sequence of entry objects.                                     *)
(***************************************************************************)
RespException(msg) == [kind |-> "exception", msg |-> msg, status |-> 0,
                       malformed |-> FALSE, data |-> <<>>]
RespStatus(code) == [kind |-> "http", msg |-> <<>>, status |-> code,
                     malformed |-> FALSE, data |-> <<>>]
RespMalformed(msg) == [kind |-> "http", msg |-> msg, status |-> 200,
                       malformed |-> TRUE, data |-> <<>>]
RespBody(data) == [kind |-> "http", msg |-> <<>>, status |-> 200,
                   malformed |-> FALSE, data |-> data]

\* ph = [p.get("text","") for p in entry["phonetics"] if p.get("text")]
RECURSIVE PhoneticTexts(_)
PhoneticTexts(phonetics) ==
    IF phonetics = <<>> THEN <<>>
    ELSE LET p == Head(phonetics)
         IN  (IF Get(p, "text", <<>>) # <<>> THEN <<Get(p, "text", <<>>)>> ELSE <<>>)
             \o PhoneticTexts(Tail(phonetics))

\* (mutant) the numbering starts at 0
DefinitionLines_ZeroBased(i, defn) ==
    LET d == Get(defn, "definition", <<>>)
        ex == Get(defn, "example", <<>>)
    IN  << <<"  ">> \o Digits(i - 1) \o <<". ">> \o d >>
        \o (IF ex # <<>> THEN << <<"     e.g., ">> \o ex >> ELSE <<>>)

\* the lines of one definition, numbered i
DefinitionLines(i, defn) ==
    LET d == Get(defn, "definition", <<>>)
        ex == Get(defn, "example", <<>>)
    IN  << <<"  ">> \o Digits(i) \o <<". ">> \o d >>
        \o (IF ex # <<>> THEN << <<"     e.g., ">> \o ex >> ELSE <<>>)

\* for i, defn in enumerate(definitions, start=1): ...   (from index i on)
RECURSIVE DefinitionsLines(_, _)
DefinitionsLines(i, definitions) ==
    IF i > Len(definitions) THEN <<>>
    ELSE DefinitionLines(i, definitions[i]) \o DefinitionsLines(i + 1, definitions)

MeaningLines(meaning) ==
    LET part == Get(meaning, "partOfSpeech", <<>>)
    IN  << <<NL, "Part of speech: ">> \o part >>
        \o DefinitionsLines(1, Get(meaning, "definitions", <<>>))

RECURSIVE MeaningsLines(_)
MeaningsLines(meanings) ==
    IF meanings = <<>> THEN <<>>
    ELSE MeaningLines(Head(meanings)) \o MeaningsLines(Tail(meanings))

\* the out_lines one entry appends
EntryLines(entry) ==
    (IF Has(entry, "word") THEN << <<"Word: ">> \o entry["word"] >> ELSE <<>>)
    \o (IF Has(entry, "phonetics") /\ entry["phonetics"] # <<>>
        THEN LET ph == PhoneticTexts(entry["phonetics"])
             IN  IF ph # <<>>
                 THEN << <<"Pronunciation: ">> \o Join(<<", ">>, ph) >>
                 ELSE <<>>
        ELSE <<>>)
    \o (IF Has(entry, "meanings") THEN MeaningsLines(entry["meanings"]) ELSE <<>>)

RECURSIVE OutLines(_)
OutLines(data) ==
    IF data = <<>> THEN <<>> ELSE EntryLines(Head(data)) \o OutLines(Tail(data))

\* (mutant) "if out_lines else None" is missing: an empty report is returned
lookup_word_api_NoEmptyTest(word, resp) ==
    IF ~Quotable(word) THEN PyRaise(<<"'utf-8' codec can't encode character">>)
    ELSE IF resp.kind = "exception"
    THEN PyStr(<<"Error contacting dictionary API: ">> \o resp.msg)
    ELSE IF resp.status = 200
    THEN IF resp.malformed
         THEN PyStr(<<"Error parsing API response: ">> \o resp.msg)
         ELSE PyStr(Join(<<NL>>, OutLines(resp.data)))
    ELSE IF resp.status = 404
    THEN PyNone
    ELSE PyStr(<<"Unexpected API response: ">> \o Digits(resp.status))

\* (mutant) the final else branch is missing: other statuses fall through
lookup_word_api_NoElse(word, resp) ==
    IF ~Quotable(word) THEN PyRaise(<<"'utf-8' codec can't encode character">>)
    ELSE IF resp.kind = "exception"
    THEN PyStr(<<"Error contacting dictionary API: ">> \o resp.msg)
    ELSE IF resp.status = 200
    THEN IF resp.malformed
         THEN PyStr(<<"Error parsing API response: ">> \o resp.msg)
         ELSE LET out_lines == OutLines(resp.data)
              IN  IF out_lines # <<>> THEN PyStr(Join(<<NL>>, out_lines)) ELSE PyNone
    ELSE PyNone

\* lookup_word_api(word) against a provider that answers resp
lookup_word_api(word, resp) ==
    IF ~Quotable(word) THEN PyRaise(<<"'utf-8' codec can't encode character">>)
    ELSE IF resp.kind = "exception"
    THEN PyStr(<<"Error contacting dictionary API: ">> \o resp.msg)
    ELSE IF resp.status = 200
    THEN IF resp.malformed
         THEN PyStr(<<"Error parsing API response: ">> \o resp.msg)
         ELSE LET out_lines == OutLines(resp.data)
              IN  IF out_lines # <<>> THEN PyStr(Join(<<NL>>, out_lines)) ELSE PyNone
    ELSE IF resp.status = 404
    THEN PyNone
    ELSE PyStr(<<"Unexpected API response: ">> \o Digits(resp.status))

\* what bg_lookup hands to lookup_result.emit(selection, .)
BgResult(selection, resp) ==
    LET result == lookup_word_api(selection, resp)
    IN  IF result.raised THEN PyStr(<<"__ERROR__:">> \o result.s) ELSE result

(***************************************************************************)
(* The application.  Request r is the pipeline started by the r-th hotkey  *)
(* press.  The signals carry only the selection text (and the result); the *)
(* field req of an event or frame is a label used to state properties: no  *)
(* handler reads program data through it.                                  *)
(***************************************************************************)
VARIABLES
    hotkey,        \* registration of the global hotkey: "pending", "active", "failed"
    worker,        \* worker[r]: position of _on_hotkey_press_worker for press r
    sel,           \* sel[r]: the text press r emitted with request_lookup (<<>>: none)
    queue,         \* events posted to the UI thread's event loop, oldest first
    stack,         \* the UI thread's nested event loops (modal exec_, processEvents), innermost last
    confirm,       \* confirm[r]: answer at the LookupDialog: "none", "asked", "yes", "no"
    loading,       \* loading[r]: the "Looking up" box: "none", "open", "closed"
    bg,            \* bg[r]: the bg_lookup thread: its position and captured selection
    resp,          \* resp[r]: what the provider answered to r's GET
    presented,     \* presented[r]: the (selection, result) pairs _handle_lookup_result received
    notices,       \* notices[r]: message boxes shown for r (0: for the application)
    window,        \* window[r]: the ResultWindow opened for r
    open_windows,  \* self.open_windows: a list of ResultWindow objects
    quit,          \* QApplication.quit() was called
    lk,            \* harness for lookup_word_api alone
    rg,            \* harness for _remove_window_ref alone
    cp             \* harness for one run of _on_hotkey_press_worker alone

appVars == <<hotkey, worker, sel, queue, stack, confirm, loading, bg, resp,
             presented, notices, window, open_windows, quit>>
vars == <<hotkey, worker, sel, queue, stack, confirm, loading, bg, resp,
          presented, notices, window, open_windows, quit, lk, rg, cp>>

\* What the clipboard can hold: nothing or a copied text, with up to MaxPad
\* whitespace characters before and after it.
CopiedTexts == {<<>>, <<"a">>, <<"a", " ", "b">>, <<SURROGATE>>}
Padding == UNION {[1 .. n -> {" "}] : n \in 0 .. MaxPad}
ClipContents == {pre \o text \o post :
                   pre \in Padding, post \in Padding, text \in CopiedTexts}
\* pyperclip.paste() returns a text or raises
ClipReads == {[ok |-> TRUE, text |-> c] : c \in ClipContents}
             \cup {[ok |-> FALSE, text |-> <<>>]}

\* §8's scenario entry
RunEntry == [word |-> <<"run">>,
             phonetics |-> << [text |-> <<"/r/">>] >>,
             meanings |-> << [partOfSpeech |-> <<"verb">>,
                             definitions |-> << [definition |-> <<"move fast">>,
                                                 example |-> <<"She ran.">>] >>] >>]

PipelineResponses ==
    { RespException(<<"timed out">>), RespStatus(404), RespStatus(500),
      RespMalformed(<<"bad json">>), RespBody(<<RunEntry>>) }

Event(type, r, selection, result) ==
    [type |-> type, req |-> r, sel |-> selection, result |-> result]
\* (mutant) the handler reads the selection from one shared attribute that
\* every hotkey press overwrites
LatestSelection ==
    LET done == {q \in Req : worker[q] = "SelectionEvent"}
    IN  IF done = {} THEN <<>> ELSE sel[CHOOSE q \in done : \A o \in done : o <= q]
Frame_SharedSelection(kind, r, selection) ==
    [kind |-> kind, req |-> r, sel |-> LatestSelection]
Frame(kind, r, selection) == [kind |-> kind, req |-> r, sel |-> selection]
Notice(icon, title, text) == [icon |-> icon, title |-> title, text |-> text]

\* no GET was made
NoAnswer == [kind |-> "none", msg |-> <<>>, status |-> 0,
             malformed |-> FALSE, data |-> <<>>]
NoWindow == [state |-> "none", title |-> <<>>, text |-> <<>>]
NoThread == [pc |-> "none", sel |-> <<>>]
LkIdle == [pc |-> "off"]
RgIdle == [pc |-> "off"]
CpIdle == [pc |-> "off"]

Init ==
    /\ hotkey = "pending"
    /\ worker = [r \in Req |-> "idle"]
    /\ sel = [r \in Req |-> <<>>]
    /\ queue = <<>>
    /\ stack = <<>>
    /\ confirm = [r \in Req |-> "none"]
    /\ loading = [r \in Req |-> "none"]
    /\ bg = [r \in Req |-> NoThread]
    /\ resp = [r \in Req |-> NoAnswer]
    /\ presented = [r \in Req |-> <<>>]
    /\ notices = [r \in {0} \cup Req |-> <<>>]
    /\ window = [r \in Req |-> NoWindow]
    /\ open_windows = <<>>
    /\ quit = FALSE
    /\ lk = LkIdle
    /\ rg = RgIdle
    /\ cp = CpIdle

(***************************************************************************)
(* Background threads.                                                     *)
(***************************************************************************)
\* QTimer.singleShot(0, <lambda>) called from a threading.Thread.  The code
\* means the lambda to run on the GUI thread.  PyQt wraps a plain callable in
\* a proxy QObject created in the calling thread, and Qt queues the call to
\* the thread the receiver lives in; a Python thread runs no Qt event loop, so
\* the call may never be run.  Both outcomes are kept: the lambda reaches the
\* GUI thread's queue, or it is lost.  (loading.close, a slot of a widget that
\* lives in the GUI thread, and the signals of the QApplication are queued to
\* the GUI thread.)
SingleShotFromThread(ev) == {Append(queue, ev), queue}

\* register_hotkey: keyboard.add_hotkey succeeds, or raises and the error box
\* is handed to QTimer.singleShot.
RegisterHotkey ==
    /\ ~quit /\ hotkey = "pending"
    /\ \/ /\ hotkey' = "active"
          /\ UNCHANGED queue
       \/ /\ hotkey' = "failed"
          /\ queue' \in SingleShotFromThread(Event("hotkey_error", 0, <<>>, PyNone))
    /\ UNCHANGED <<worker, sel, stack, confirm, loading, bg, resp, presented,
                   notices, window, open_windows, quit, lk, rg, cp>>

\* "not selection or not str(selection).strip()"
IsBlank(selection) == selection = <<>> \/ Strip(selection) = <<>>

\* the worker from the paste on: "selection = ''" on a failed paste, the
\* emptiness test, and selection = str(selection).strip()
Capture(read) ==
    LET selection == IF read.ok THEN read.text ELSE <<>>
    IN  IF IsBlank(selection)
        THEN [outcome |-> "NoSelection", text |-> <<>>]
        ELSE [outcome |-> "SelectionEvent", text |-> Strip(selection)]

\* The registered callback starts a daemon thread running
\* _on_hotkey_press_worker.  The thread touches only its own locals until it
\* posts to the GUI thread, so its run is one step: the copy simulation
\* (pyautogui.hotkey, on failure keyDown/press/keyUp, on failure pass), the
\* sleep, the paste (a failure reads as ""), the emptiness test and the post.
CopyOutcomes == {"hotkey", "fallback", "failed"}

\* (mutant) the outer try/except around the copy simulation is missing
SimulateCopy_NoOuterTry(how) ==
    LET combined == IF how = "hotkey" THEN "returned" ELSE "raised"
    IN  IF combined = "raised"
        THEN IF how = "fallback" THEN "returned" ELSE "raised"
        ELSE combined

\* try: (try: pyautogui.hotkey(..) except: keyDown; press; keyUp) except: pass
\* how: the combined form works; it raises and the single keys work; both
\* raise.  The value says how control leaves the statement.
SimulateCopy(how) ==
    LET combined == IF how = "hotkey" THEN "returned" ELSE "raised"
        inner == IF combined = "raised"
                 THEN IF how = "fallback" THEN "returned" ELSE "raised"
                 ELSE combined
    IN  IF inner = "raised" THEN "passed" ELSE inner

\* what one run of the worker ends with, for a copy outcome and a clipboard
\* read: an exception that escapes the copy simulation ends the thread
WorkerRun(how, read) ==
    IF SimulateCopy(how) = "raised"
    THEN [outcome |-> "crashed", text |-> <<>>]
    ELSE Capture(read)

OnHotkeyPressWorker(r) ==
    /\ ~quit /\ hotkey = "active"
    /\ worker[r] = "idle"
    /\ \A q \in 1 .. r - 1 : worker[q] # "idle"
    /\ \E how \in CopyOutcomes, read \in ClipReads :
         LET got == WorkerRun(how, read)
         IN  /\ worker' = [worker EXCEPT ![r] = got.outcome]
             /\ IF got.outcome = "crashed"
                THEN UNCHANGED <<queue, sel>>
                ELSE IF got.outcome = "NoSelection"
                THEN /\ queue' \in SingleShotFromThread(
                                       Event("no_selection", r, <<>>, PyNone))
                     /\ UNCHANGED sel
                ELSE /\ queue' = Append(queue, Event("request_lookup", r, got.text, PyNone))
                     /\ sel' = [sel EXCEPT ![r] = got.text]
    /\ UNCHANGED <<hotkey, stack, confirm, loading, bg, resp, presented,
                   notices, window, open_windows, quit, lk, rg, cp>>

\* The provider is asked only when the URL could be built.
ProviderAnswers(word) == IF Quotable(word) THEN PipelineResponses ELSE {NoAnswer}

\* (mutant) bg_lookup's finally clause calls loading.close() itself, from the
\* lookup thread
BgLookup_ClosesBoxItself(r) ==
    /\ ~quit /\ bg[r].pc = "run"
    /\ \E answer \in ProviderAnswers(bg[r].sel) :
         /\ resp' = [resp EXCEPT ![r] = answer]
         /\ queue' = queue \o
                     << Event("lookup_result", r, bg[r].sel, BgResult(bg[r].sel, answer)) >>
    /\ loading' = [loading EXCEPT ![r] = "closed"]
    /\ bg' = [bg EXCEPT ![r].pc = "done"]
    /\ UNCHANGED <<hotkey, worker, sel, stack, confirm, presented,
                   notices, window, open_windows, quit, lk, rg, cp>>

\* (mutant) the result is emitted in the try block and again after it
BgLookup_EmitsTwice(r) ==
    /\ ~quit /\ bg[r].pc = "run"
    /\ \E answer \in ProviderAnswers(bg[r].sel) :
         /\ resp' = [resp EXCEPT ![r] = answer]
         /\ queue' = queue \o
                     << Event("lookup_result", r, bg[r].sel, BgResult(bg[r].sel, answer)),
                        Event("lookup_result", r, bg[r].sel, BgResult(bg[r].sel, answer)),
                        Event("loading_close", r, <<>>, PyNone) >>
    /\ bg' = [bg EXCEPT ![r].pc = "done"]
    /\ UNCHANGED <<hotkey, worker, sel, stack, confirm, loading, presented,
                   notices, window, open_windows, quit, lk, rg, cp>>

\* bg_lookup: the GET, lookup_result.emit(selection, result) and, in the
\* finally clause, QTimer.singleShot(0, loading.close).  Both posts go to the
\* GUI thread in this order.
BgLookup(r) ==
    /\ ~quit /\ bg[r].pc = "run"
    /\ \E answer \in ProviderAnswers(bg[r].sel) :
         /\ resp' = [resp EXCEPT ![r] = answer]
         /\ queue' = queue \o
                     << Event("lookup_result", r, bg[r].sel, BgResult(bg[r].sel, answer)),
                        Event("loading_close", r, <<>>, PyNone) >>
    /\ bg' = [bg EXCEPT ![r].pc = "done"]
    /\ UNCHANGED <<hotkey, worker, sel, stack, confirm, loading, presented,
                   notices, window, open_windows, quit, lk, rg, cp>>

(***************************************************************************)
(* The UI thread.  Queued signal deliveries and zero-timers are taken from *)
(* the event queue in the order they were posted, by whichever event loop  *)
(* is running: app.exec_(), a dialog's exec_(), a static QMessageBox call  *)
(* or processEvents().  A handler that opens a modal box stays on the      *)
(* stack until that box is answered, and only the innermost box can be     *)
(* answered (it is application-modal).                                     *)
(***************************************************************************)
Top == stack[Len(stack)]
Pop == SubSeq(stack, 1, Len(stack) - 1)
Modal(frame) == frame.kind \in {"confirm", "msgbox"}
InputBlocked == \E i \in 1 .. Len(stack) : Modal(stack[i])
Pending(type) == ~quit /\ queue # <<>> /\ Head(queue).type = type

\* the lambda posted by register_hotkey's except branch
ShowHotkeyError ==
    /\ Pending("hotkey_error")
    /\ queue' = Tail(queue)
    /\ notices' = [notices EXCEPT ![0] =
                     Append(@, Notice("critical", <<"Hotkey Error">>,
                                      <<"Failed to register global hotkey">>))]
    /\ stack' = Append(stack, Frame("msgbox", 0, <<>>))
    /\ UNCHANGED <<hotkey, worker, sel, confirm, loading, bg, resp, presented,
                   window, open_windows, quit, lk, rg, cp>>

\* the lambda posted by the worker when nothing was copied
ShowNoSelection ==
    /\ Pending("no_selection")
    /\ LET r == Head(queue).req
       IN  /\ notices' = [notices EXCEPT ![r] =
                            Append(@, Notice("information", <<"No selection">>,
                                             <<"No text was selected (or nothing copied). Select text and press the hotkey again.">>))]
           /\ stack' = Append(stack, Frame("msgbox", r, <<>>))
    /\ queue' = Tail(queue)
    /\ UNCHANGED <<hotkey, worker, sel, confirm, loading, bg, resp, presented,
                   window, open_windows, quit, lk, rg, cp>>

\* _handle_lookup_request(selection), up to dlg.exec_()
HandleLookupRequest ==
    /\ Pending("request_lookup")
    /\ LET ev == Head(queue)
       IN  /\ stack' = Append(stack, Frame("confirm", ev.req, ev.sel))
           /\ confirm' = [confirm EXCEPT ![ev.req] = "asked"]
    /\ queue' = Tail(queue)
    /\ UNCHANGED <<hotkey, worker, sel, loading, bg, resp, presented,
                   notices, window, open_windows, quit, lk, rg, cp>>

\* dlg.exec_() == Accepted: the loading box is shown and processEvents() runs
AnswerYes ==
    /\ ~quit /\ stack # <<>> /\ Top.kind = "confirm"
    /\ confirm' = [confirm EXCEPT ![Top.req] = "yes"]
    /\ loading' = [loading EXCEPT ![Top.req] = "open"]
    /\ stack' = Append(Pop, Frame("processEvents", Top.req, Top.sel))
    /\ UNCHANGED <<hotkey, worker, sel, queue, bg, resp, presented,
                   notices, window, open_windows, quit, lk, rg, cp>>

\* (mutant) answering No also discards what waits in the event queue
AnswerNo_ClearsQueue ==
    /\ ~quit /\ stack # <<>> /\ Top.kind = "confirm"
    /\ confirm' = [confirm EXCEPT ![Top.req] = "no"]
    /\ stack' = Pop
    /\ queue' = <<>>
    /\ UNCHANGED <<hotkey, worker, sel, loading, bg, resp, presented,
                   notices, window, open_windows, quit, lk, rg, cp>>

\* (mutant) the lookup is started whatever the answer
AnswerNo_LooksUpAnyway ==
    /\ ~quit /\ stack # <<>> /\ Top.kind = "confirm"
    /\ confirm' = [confirm EXCEPT ![Top.req] = "no"]
    /\ loading' = [loading EXCEPT ![Top.req] = "open"]
    /\ stack' = Append(Pop, Frame("processEvents", Top.req, Top.sel))
    /\ UNCHANGED <<hotkey, worker, sel, queue, bg, resp, presented,
                   notices, window, open_windows, quit, lk, rg, cp>>

\* dlg.exec_() != Accepted (No, or the dialog is closed): pass
AnswerNo ==
    /\ ~quit /\ stack # <<>> /\ Top.kind = "confirm"
    /\ confirm' = [confirm EXCEPT ![Top.req] = "no"]
    /\ stack' = Pop
    /\ UNCHANGED <<hotkey, worker, sel, queue, loading, bg, resp, presented,
                   notices, window, open_windows, quit, lk, rg, cp>>

\* processEvents() returns: bg_lookup is started with the handler's selection
StartLookupThread ==
    /\ ~quit /\ stack # <<>> /\ Top.kind = "processEvents"
    /\ bg' = [bg EXCEPT ![Top.req] = [pc |-> "run", sel |-> Top.sel]]
    /\ stack' = Pop
    /\ UNCHANGED <<hotkey, worker, sel, queue, confirm, loading, resp, presented,
                   notices, window, open_windows, quit, lk, rg, cp>>

\* (mutant) the "result is None" test is missing
OutcomeOf_NoNoneTest(result) ==
    IF ~result.none /\ StartsWith(result.s, "__ERROR__:") THEN "Error"
    ELSE "Success"

\* how _handle_lookup_result tells the three outcomes apart
OutcomeOf(result) ==
    IF ~result.none /\ StartsWith(result.s, "__ERROR__:") THEN "Error"
    ELSE IF result.none THEN "NotFound"
    ELSE "Success"

\* what _handle_lookup_result(selection, result) shows
Presentation(selection, result) ==
    IF OutcomeOf(result) = "Error"
    THEN [kind |-> "critical", title |-> <<"Lookup Error">>,
          text |-> <<"Error while looking up \"">> \o selection \o <<"\":", NL>>
                   \o AfterMarker(result.s)]
    ELSE IF OutcomeOf(result) = "NotFound"
    THEN [kind |-> "information", title |-> <<"Not found">>,
          text |-> <<"No such word exists: \"">> \o selection \o <<"\"">>]
    ELSE [kind |-> "window", title |-> <<"Meaning: ">> \o selection, text |-> result.s]

\* _handle_lookup_result(selection, result)
HandleLookupResult ==
    /\ Pending("lookup_result")
    /\ LET ev == Head(queue)
           r == ev.req
           show == Presentation(ev.sel, ev.result)
       IN  /\ presented' = [presented EXCEPT ![r] =
                              Append(@, [sel |-> ev.sel, result |-> ev.result])]
           /\ IF show.kind = "window"
              THEN /\ window' = [window EXCEPT ![r] =
                                   [state |-> "shown", title |-> show.title, text |-> show.text]]
                   /\ open_windows' = Append(open_windows, r)
                   /\ UNCHANGED <<notices, stack>>
              ELSE /\ notices' = [notices EXCEPT ![r] =
                                    Append(@, Notice(show.kind, show.title, show.text))]
                   /\ stack' = Append(stack, Frame("msgbox", r, ev.sel))
                   /\ UNCHANGED <<window, open_windows>>
    /\ queue' = Tail(queue)
    /\ UNCHANGED <<hotkey, worker, sel, confirm, loading, bg, resp, quit, lk, rg, cp>>

\* loading.close, posted by bg_lookup's finally
LoadingClose ==
    /\ Pending("loading_close")
    /\ loading' = [loading EXCEPT ![Head(queue).req] = "closed"]
    /\ queue' = Tail(queue)
    /\ UNCHANGED <<hotkey, worker, sel, stack, confirm, bg, resp, presented,
                   notices, window, open_windows, quit, lk, rg, cp>>

\* the user dismisses the innermost message box: the static call returns
DismissNotice ==
    /\ ~quit /\ stack # <<>> /\ Top.kind = "msgbox"
    /\ stack' = Pop
    /\ UNCHANGED <<hotkey, worker, sel, queue, confirm, loading, bg, resp, presented,
                   notices, window, open_windows, quit, lk, rg, cp>>

\* the list without its first occurrence of w
RECURSIVE RemoveFirst(_, _)
RemoveFirst(list, w) ==
    IF list = <<>> THEN <<>>
    ELSE IF Head(list) = w THEN Tail(list)
    ELSE <<Head(list)>> \o RemoveFirst(Tail(list), w)
Contains(list, w) == \E i \in 1 .. Len(list) : list[i] = w
\* list.remove(w): raises ValueError when w is not in the list
ListRemove(list, w) ==
    IF Contains(list, w) THEN [raised |-> FALSE, list |-> RemoveFirst(list, w)]
    ELSE [raised |-> TRUE, list |-> list]
\* (mutant) neither the membership test nor the try/except
RemoveWindowRef_NoGuard(list, w) == ListRemove(list, w)

\* try: "if w in self.open_windows: self.open_windows.remove(w)"; except: pass
RemoveWindowRef(list, w) ==
    LET out == IF Contains(list, w) THEN ListRemove(list, w)
               ELSE [raised |-> FALSE, list |-> list]
    IN  [raised |-> FALSE, list |-> out.list]

\* (mutant) Continue closes every result window, as if close() ended the
\* application's windows
Continue_ClosesAll(w) ==
    /\ ~quit /\ ~InputBlocked
    /\ window[w].state = "shown"
    /\ window' = [o \in Req |-> IF window[o].state = "shown"
                                THEN [window[o] EXCEPT !.state = "closed"]
                                ELSE window[o]]
    /\ UNCHANGED <<hotkey, worker, sel, queue, stack, confirm, loading, bg, resp,
                   presented, notices, open_windows, quit, lk, rg, cp>>

\* ResultWindow._on_continue (or the window's close button): self.close().
\* The widget has no WA_DeleteOnClose and stays referenced by open_windows,
\* so close() hides it, the object lives on, `destroyed` is not emitted and
\* _remove_window_ref is not called.
Continue(w) ==
    /\ ~quit /\ ~InputBlocked
    /\ window[w].state = "shown"
    /\ window' = [window EXCEPT ![w].state = "closed"]
    /\ UNCHANGED <<hotkey, worker, sel, queue, stack, confirm, loading, bg, resp,
                   presented, notices, open_windows, quit, lk, rg, cp>>

\* (mutant) quit() only records the request; windows, boxes and threads stay
ProcessExit_LeavesAllRunning ==
    /\ quit' = TRUE
    /\ UNCHANGED <<hotkey, worker, sel, queue, stack, confirm, loading, bg, resp,
                   presented, notices, window, open_windows, lk, rg, cp>>

\* QApplication.quit(): every event loop returns, main() reaches sys.exit and
\* the process ends, its daemon threads with it.  Nothing of the program's
\* state outlives the process.
ProcessExit ==
    /\ quit' = TRUE
    /\ hotkey' = "pending"
    /\ worker' = [r \in Req |-> "idle"]
    /\ sel' = [r \in Req |-> <<>>]
    /\ queue' = <<>>
    /\ stack' = <<>>
    /\ confirm' = [r \in Req |-> "none"]
    /\ loading' = [r \in Req |-> "none"]
    /\ bg' = [r \in Req |-> NoThread]
    /\ resp' = [r \in Req |-> NoAnswer]
    /\ presented' = [r \in Req |-> <<>>]
    /\ notices' = [r \in {0} \cup Req |-> <<>>]
    /\ window' = [r \in Req |-> NoWindow]
    /\ open_windows' = <<>>
    /\ UNCHANGED <<lk, rg, cp>>

\* ResultWindow._on_close_app: self.close(); QApplication.instance().quit()
CloseApp(w) ==
    /\ ~quit /\ ~InputBlocked
    /\ window[w].state = "shown"
    /\ ProcessExit

\* the tray menu's Quit action: self.quit
TrayQuit ==
    /\ ~quit
    /\ ProcessExit

Next ==
    \/ RegisterHotkey
    \/ \E r \in Req : OnHotkeyPressWorker(r)
    \/ \E r \in Req : BgLookup(r)
    \/ ShowHotkeyError
    \/ ShowNoSelection
    \/ HandleLookupRequest
    \/ AnswerYes
    \/ AnswerNo
    \/ StartLookupThread
    \/ HandleLookupResult
    \/ LoadingClose
    \/ DismissNotice
    \/ \E w \in Req : Continue(w)
    \/ \E w \in Req : CloseApp(w)
    \/ TrayQuit

Spec == Init /\ [][Next]_vars

(***************************************************************************)
(* Progress.  The Qt event loop delivers every queued event, a started     *)
(* thread runs to its end, and processEvents() returns.  Whether a dialog  *)
(* or a message box is ever answered is up to the user: the progress       *)
(* properties assume that an open box is answered in the end, and nothing  *)
(* about Continue, Close app, the tray's Quit or further hotkey presses.   *)
(***************************************************************************)
Fairness ==
    /\ WF_vars(ShowHotkeyError) /\ WF_vars(ShowNoSelection)
    /\ WF_vars(HandleLookupRequest) /\ WF_vars(HandleLookupResult)
    /\ WF_vars(LoadingClose) /\ WF_vars(StartLookupThread)
    /\ \A r \in Req : WF_vars(BgLookup(r))
    /\ WF_vars(AnswerYes \/ AnswerNo) /\ WF_vars(DismissNotice)

FairSpec == Spec /\ Fairness

(***************************************************************************)
(* lookup_word_api alone: a provider answer is drawn, a 200 body is built  *)
(* node by node (entries, phonetics, meanings and definitions, each key    *)
(* present or absent), and the function is called on it.                   *)
(***************************************************************************)
LkWords == {<<"a">>, <<SURROGATE>>}
LkStatuses == {100, 204, 301, 404, 500, 503}
LkStartAnswers ==
    { RespException(<<"connection refused">>), RespException(<<"timed out">>),
      RespMalformed(<<"bad json">>), RespBody(<<>>) }
    \cup {RespStatus(code) : code \in LkStatuses}

\* the key sets an entry is built with: every key is absent from one of them
EntryKeySets == { {"word", "phonetics", "meanings"}, {"phonetics", "meanings"},
                  {"word"}, {} }
NewEntry(keys) == [k \in keys |-> IF k = "word" THEN <<"run">> ELSE <<>>]
PhoneticVariants == { [text |-> <<"/r/">>], [text |-> <<>>], <<>> }
MeaningKeys == {"partOfSpeech", "definitions"}
NewMeaning(keys) == [k \in keys |-> IF k = "partOfSpeech" THEN <<"verb">> ELSE <<>>]
DefinitionVariants ==
    { [definition |-> <<"move fast">>],
      [definition |-> <<"move fast">>, example |-> <<"She ran.">>],
      [definition |-> <<"flow">>, example |-> <<>>],
      <<>> }

\* number of objects in a body
RECURSIVE SumLen(_, _)
SumLen(list, key) ==
    IF list = <<>> THEN 0
    ELSE Len(Get(Head(list), key, <<>>)) + SumLen(Tail(list), key)
RECURSIVE BodySize(_)
BodySize(data) ==
    IF data = <<>> THEN 0
    ELSE 1 + Len(Get(Head(data), "phonetics", <<>>))
           + Len(Get(Head(data), "meanings", <<>>))
           + SumLen(Get(Head(data), "meanings", <<>>), "definitions")
           + BodySize(Tail(data))

LkInit ==
    /\ hotkey = "pending"
    /\ worker = [r \in Req |-> "idle"]
    /\ sel = [r \in Req |-> <<>>]
    /\ queue = <<>>
    /\ stack = <<>>
    /\ confirm = [r \in Req |-> "none"]
    /\ loading = [r \in Req |-> "none"]
    /\ bg = [r \in Req |-> NoThread]
    /\ resp = [r \in Req |-> NoAnswer]
    /\ presented = [r \in Req |-> <<>>]
    /\ notices = [r \in {0} \cup Req |-> <<>>]
    /\ window = [r \in Req |-> NoWindow]
    /\ open_windows = <<>>
    /\ quit = FALSE
    /\ rg = RgIdle
    /\ cp = CpIdle
    /\ \E word \in LkWords :
         \E answer \in (IF Quotable(word) THEN LkStartAnswers ELSE {NoAnswer}) :
            lk = [pc |-> "build", word |-> word, resp |-> answer,
                  result |-> PyNone, emitted |-> PyNone]

Building ==
    /\ lk.pc = "build" /\ lk.resp.kind = "http" /\ lk.resp.status = 200
    /\ ~lk.resp.malformed
    /\ BodySize(lk.resp.data) < MaxBodySize

LkAddEntry ==
    /\ Building
    /\ \E keys \in EntryKeySets :
         lk' = [lk EXCEPT !.resp.data = Append(@, NewEntry(keys))]
    /\ UNCHANGED <<appVars, rg, cp>>

LkAddPhonetic ==
    /\ Building
    /\ lk.resp.data # <<>>
    /\ LET n == Len(lk.resp.data)
       IN  /\ Has(lk.resp.data[n], "phonetics")
           /\ Get(lk.resp.data[n], "meanings", <<>>) = <<>>
           /\ \E p \in PhoneticVariants :
                lk' = [lk EXCEPT !.resp.data[n]["phonetics"] = Append(@, p)]
    /\ UNCHANGED <<appVars, rg, cp>>

LkAddMeaning ==
    /\ Building
    /\ lk.resp.data # <<>>
    /\ LET n == Len(lk.resp.data)
       IN  /\ Has(lk.resp.data[n], "meanings")
           /\ \E keys \in SUBSET MeaningKeys :
                lk' = [lk EXCEPT !.resp.data[n]["meanings"] = Append(@, NewMeaning(keys))]
    /\ UNCHANGED <<appVars, rg, cp>>

LkAddDefinition ==
    /\ Building
    /\ lk.resp.data # <<>>
    /\ LET n == Len(lk.resp.data)
           ms == Get(lk.resp.data[n], "meanings", <<>>)
       IN  /\ ms # <<>>
           /\ Has(ms[Len(ms)], "definitions")
           /\ \E d \in DefinitionVariants :
                lk' = [lk EXCEPT !.resp.data[n]["meanings"][Len(ms)]["definitions"] =
                                    Append(@, d)]
    /\ UNCHANGED <<appVars, rg, cp>>

\* result = lookup_word_api(word), and what bg_lookup would emit for it
LkCall ==
    /\ lk.pc = "build"
    /\ lk' = [lk EXCEPT !.pc = "done",
                        !.result = lookup_word_api(lk.word, lk.resp),
                        !.emitted = BgResult(lk.word, lk.resp)]
    /\ UNCHANGED <<appVars, rg, cp>>

LkNext == LkAddEntry \/ LkAddPhonetic \/ LkAddMeaning \/ LkAddDefinition \/ LkCall

LookupSpec == LkInit /\ [][LkNext]_vars

(***************************************************************************)
(* _remove_window_ref alone: a registry without repetitions (each          *)
(* ResultWindow is appended once) and a window w, removed once and again.  *)
(***************************************************************************)
WindowIds == 1 .. MaxWindows
Registries ==
    {list \in UNION {[1 .. n -> WindowIds] : n \in 0 .. MaxWindows} :
        \A i, j \in 1 .. Len(list) : i # j => list[i] # list[j]}

RgInit ==
    /\ hotkey = "pending"
    /\ worker = [r \in Req |-> "idle"]
    /\ sel = [r \in Req |-> <<>>]
    /\ queue = <<>>
    /\ stack = <<>>
    /\ confirm = [r \in Req |-> "none"]
    /\ loading = [r \in Req |-> "none"]
    /\ bg = [r \in Req |-> NoThread]
    /\ resp = [r \in Req |-> NoAnswer]
    /\ presented = [r \in Req |-> <<>>]
    /\ notices = [r \in {0} \cup Req |-> <<>>]
    /\ window = [r \in Req |-> NoWindow]
    /\ open_windows = <<>>
    /\ quit = FALSE
    /\ lk = LkIdle
    /\ cp = CpIdle
    /\ \E list \in Registries, w \in WindowIds :
         rg = [pc |-> "start", before |-> list, w |-> w, list |-> list,
               once |-> list, raised |-> FALSE]

\* the first call of self._remove_window_ref(w)
RgRemoveOnce ==
    /\ rg.pc = "start"
    /\ LET out == RemoveWindowRef(rg.list, rg.w)
       IN  rg' = [rg EXCEPT !.pc = "once", !.list = out.list, !.once = out.list,
                            !.raised = out.raised]
    /\ UNCHANGED <<appVars, lk, cp>>

\* the second call, with the same w
RgRemoveTwice ==
    /\ rg.pc = "once"
    /\ LET out == RemoveWindowRef(rg.list, rg.w)
       IN  rg' = [rg EXCEPT !.pc = "twice", !.list = out.list,
                            !.raised = rg.raised \/ out.raised]
    /\ UNCHANGED <<appVars, lk, cp>>

RgNext == RgRemoveOnce \/ RgRemoveTwice

RegistrySpec == RgInit /\ [][RgNext]_vars

(***************************************************************************)
(* One run of _on_hotkey_press_worker alone, statement by statement, for   *)
(* every outcome of the copy simulation and every clipboard read.          *)
(***************************************************************************)
CpInit ==
    /\ hotkey = "pending"
    /\ worker = [r \in Req |-> "idle"]
    /\ sel = [r \in Req |-> <<>>]
    /\ queue = <<>>
    /\ stack = <<>>
    /\ confirm = [r \in Req |-> "none"]
    /\ loading = [r \in Req |-> "none"]
    /\ bg = [r \in Req |-> NoThread]
    /\ resp = [r \in Req |-> NoAnswer]
    /\ presented = [r \in Req |-> <<>>]
    /\ notices = [r \in {0} \cup Req |-> <<>>]
    /\ window = [r \in Req |-> NoWindow]
    /\ open_windows = <<>>
    /\ quit = FALSE
    /\ lk = LkIdle
    /\ rg = RgIdle
    /\ \E how \in CopyOutcomes, read \in ClipReads :
         cp = [pc |-> "copy", how |-> how, read |-> read,
               outcome |-> "none", text |-> <<>>]

\* the copy simulation inside its two try blocks
CpCopy ==
    /\ cp.pc = "copy"
    /\ cp' = IF SimulateCopy(cp.how) = "raised"
             THEN [cp EXCEPT !.pc = "crashed", !.outcome = "crashed"]
             ELSE [cp EXCEPT !.pc = "sleep"]
    /\ UNCHANGED <<appVars, lk, rg>>

\* time.sleep(0.12)
CpSleep ==
    /\ cp.pc = "sleep"
    /\ cp' = [cp EXCEPT !.pc = "paste"]
    /\ UNCHANGED <<appVars, lk, rg>>

\* the paste, the emptiness test and the post
CpPaste ==
    /\ cp.pc = "paste"
    /\ cp' = [cp EXCEPT !.pc = "done",
                        !.outcome = Capture(cp.read).outcome,
                        !.text = Capture(cp.read).text]
    /\ UNCHANGED <<appVars, lk, rg>>

CpNext == CpCopy \/ CpSleep \/ CpPaste

CaptureSpec == CpInit /\ [][CpNext]_vars

(***************************************************************************)
(* Properties.                                                             *)
(***************************************************************************)
InQueue(type, r) == \E i \in 1 .. Len(queue) : queue[i].type = type /\ queue[i].req = r
OnStack(kind, r) == \E i \in 1 .. Len(stack) : stack[i].kind = kind /\ stack[i].req = r

\* the answers the spec calls NetworkFailure, Timeout, UnexpectedStatus, ParseFailure
ErrorAnswer(answer) ==
    \/ answer.kind = "exception"
    \/ answer.kind = "http" /\ answer.status = 200 /\ answer.malformed
    \/ answer.kind = "http" /\ answer.status \notin {200, 404}

\* request r's lookup ended in an error and its result was handled
ErrorHandled(r) ==
    /\ presented[r] # <<>>
    /\ ErrorAnswer(resp[r]) \/ ~Quotable(sel[r])

\* the message of the failure, as lookup_word_api or bg_lookup words it
Mentions(text, msg) ==
    \E i \in 1 .. Len(text) : SubSeq(text, i, i + Len(msg) - 1) = msg

\* C1: when a confirmed request's lookup ends in an error, the result handler
\* shows one critical notice that includes the message, opens no ResultWindow
\* and leaves open_windows without an entry for the request.
C1_ErrorShowsCriticalNotice ==
    \A r \in Req :
        ErrorHandled(r) =>
            /\ Len(notices[r]) = 1
            /\ notices[r][1].icon = "critical"
            /\ Mentions(notices[r][1].text, resp[r].msg)
            /\ window[r].state = "none"
            /\ ~Contains(open_windows, r)

\* C2: for every non-empty trimmed text and every behaviour of the provider,
\* the lookup hands over exactly one of Success, NotFound, Error and never
\* raises; a network exception, a timeout and a parse failure are Error.
C2_LookupIsThreeWayAndErrorsAreError ==
    lk.pc = "done" =>
        /\ ~lk.emitted.raised
        /\ OutcomeOf(lk.emitted) \in {"Success", "NotFound", "Error"}
        /\ (lk.resp.kind = "exception" \/ lk.resp.malformed)
              => OutcomeOf(lk.emitted) = "Error"

\* C3: when the provider answers 404 for request r, the outcome is NotFound
\* and the router shows exactly one informational notice reading
\* No such word exists: "<r's own selection>", and no ResultWindow is created
\* or registered.
C3_NotFoundNotice ==
    \A r \in Req :
        (presented[r] # <<>> /\ resp[r].kind = "http" /\ resp[r].status = 404) =>
            /\ Len(presented[r]) = 1
            /\ OutcomeOf(presented[r][1].result) = "NotFound"
            /\ notices[r] = << Notice("information", <<"Not found">>,
                                      <<"No such word exists: \"">> \o sel[r] \o <<"\"">>) >>
            /\ window[r].state = "none"
            /\ ~Contains(open_windows, r)

C3_Witness ==
    \E r \in Req :
        /\ presented[r] # <<>> /\ resp[r].kind = "http" /\ resp[r].status = 404
        /\ sel[r] = <<"a", " ", "b">>

\* the number a sequence of decimal digits denotes (-1: not a number)
DigitValue(d) == IF \E v \in 0 .. 9 : DigitChar[v + 1] = d
                 THEN CHOOSE v \in 0 .. 9 : DigitChar[v + 1] = d
                 ELSE -1
RECURSIVE DecimalValue(_)
DecimalValue(ds) ==
    IF ds = <<>> \/ DigitValue(ds[Len(ds)]) < 0 THEN -1
    ELSE IF Len(ds) = 1 THEN DigitValue(ds[1])
    ELSE LET high == DecimalValue(SubSeq(ds, 1, Len(ds) - 1))
         IN  IF high < 0 THEN -1 ELSE 10 * high + DigitValue(ds[Len(ds)])

UnexpectedStatus == lk.pc = "done" /\ lk.resp.kind = "http" /\ lk.resp.status \notin {200, 404}

RECURSIVE SplitLines(_)
SplitLines(text) ==
    IF \A i \in 1 .. Len(text) : text[i] # NL THEN <<text>>
    ELSE LET i == CHOOSE k \in 1 .. Len(text) :
                      text[k] = NL /\ \A j \in 1 .. k - 1 : text[j] # NL
         IN  <<SubSeq(text, 1, i - 1)>> \o SplitLines(SubSeq(text, i + 1, Len(text)))

RECURSIVE Flatten(_)
Flatten(seqs) == IF seqs = <<>> THEN <<>> ELSE Head(seqs) \o Flatten(Tail(seqs))

\* The reference layout, as a sequence of lines (<<>> is a blank line).
HasText(p) == Has(p, "text") /\ p["text"] # <<>>
HasExample(d) == Has(d, "example") /\ d["example"] # <<>>
RECURSIVE CommaJoined(_)
CommaJoined(ps) ==
    IF Len(ps) = 1 THEN ps[1]["text"]
    ELSE ps[1]["text"] \o <<", ">> \o CommaJoined(Tail(ps))
RefDefinition(n, d) ==
    << <<"  ", DigitChar[n + 1], ". ">> \o (IF Has(d, "definition") THEN d["definition"] ELSE <<>>) >>
    \o (IF HasExample(d) THEN << <<"     e.g., ">> \o d["example"] >> ELSE <<>>)
RefMeaning(m) ==
    LET ds == IF Has(m, "definitions") THEN m["definitions"] ELSE <<>>
    IN  << <<>>, <<"Part of speech: ">> \o (IF Has(m, "partOfSpeech") THEN m["partOfSpeech"] ELSE <<>>) >>
        \o Flatten([n \in 1 .. Len(ds) |-> RefDefinition(n, ds[n])])
RefEntry(e) ==
    LET spoken == IF Has(e, "phonetics") THEN SelectSeq(e["phonetics"], HasText) ELSE <<>>
        ms == IF Has(e, "meanings") THEN e["meanings"] ELSE <<>>
    IN  (IF Has(e, "word") THEN << <<"Word: ">> \o e["word"] >> ELSE <<>>)
        \o (IF spoken # <<>> THEN << <<"Pronunciation: ">> \o CommaJoined(spoken) >> ELSE <<>>)
        \o Flatten([k \in 1 .. Len(ms) |-> RefMeaning(ms[k])])
RefLayout(data) == Flatten([k \in 1 .. Len(data) |-> RefEntry(data[k])])

LinesStarting(lines, atom) ==
    {i \in 1 .. Len(lines) : lines[i] # <<>> /\ lines[i][1] = atom}
AllDefinitions(data) ==
    Flatten([k \in 1 .. Len(data) |->
        LET ms == Get(data[k], "meanings", <<>>)
        IN  Flatten([j \in 1 .. Len(ms) |-> Get(ms[j], "definitions", <<>>)])])

Formatted ==
    /\ lk.pc = "done" /\ Quotable(lk.word)
    /\ lk.resp.kind = "http" /\ lk.resp.status = 200 /\ ~lk.resp.malformed
    /\ RefLayout(lk.resp.data) # <<>>

\* C5: for a 200 body of entries the report is the reference layout: per
\* entry "Word: <w>" when word is present, "Pronunciation: <a, b>" exactly
\* when a phonetic has a non-empty text, per meaning a blank line and
\* "Part of speech: X", then "  N. <definition>" numbered from 1 within the
\* meaning, each followed at once by "     e.g., <example>" exactly when it
\* has a (non-empty) example; so there is one word line per entry with a
\* word and one numbered line per definition.
C5_ReportIsReferenceLayout ==
    Formatted =>
        LET lines == SplitLines(lk.result.s)
            data == lk.resp.data
        IN  /\ ~lk.result.raised /\ ~lk.result.none
            /\ lines = RefLayout(data)
            /\ Cardinality(LinesStarting(lines, "Word: "))
                 = Cardinality({k \in 1 .. Len(data) : Has(data[k], "word")})
            /\ Cardinality(LinesStarting(lines, "  ")) = Len(AllDefinitions(data))
            /\ Cardinality(LinesStarting(lines, "     e.g., "))
                 = Len(SelectSeq(AllDefinitions(data), HasExample))
            /\ \A i \in LinesStarting(lines, "     e.g., ") :
                 i > 1 /\ lines[i - 1] # <<>> /\ lines[i - 1][1] = "  "

\* §8's scenario
C5_Witness ==
    /\ Formatted
    /\ lk.resp.data = <<RunEntry>>
    /\ lk.result.s = << "Word: ", "run", NL, "Pronunciation: ", "/r/", NL, NL,
                        "Part of speech: ", "verb", NL, "  ", "1", ". ", "move fast",
                        NL, "     e.g., ", "She ran." >>

\* a text is trimmed: not empty, no whitespace at either end
Trimmed(text) ==
    text # <<>> /\ text[1] \notin WhiteSpace /\ text[Len(text)] \notin WhiteSpace
AllWhite(text) == \A i \in 1 .. Len(text) : text[i] \in WhiteSpace
TrimOf(content, text) ==
    \E i, j \in 1 .. Len(content) :
        /\ i <= j /\ text = SubSeq(content, i, j) /\ Trimmed(text)
        /\ AllWhite(SubSeq(content, 1, i - 1))
        /\ AllWhite(SubSeq(content, j + 1, Len(content)))
NoSelectionNotice ==
    Notice("information", <<"No selection">>,
           <<"No text was selected (or nothing copied). Select text and press the hotkey again.">>)

\* what the worker makes of each clipboard read
CaptureContract ==
    \A read \in ClipReads :
        IF ~read.ok \/ AllWhite(read.text)
        THEN Capture(read).outcome = "NoSelection"
        ELSE /\ Capture(read).outcome = "SelectionEvent"
             /\ TrimOf(read.text, Capture(read).text)

\* C6: for every clipboard content, a failed read included: empty or
\* whitespace-only content yields NoSelection (the "No selection" notice is
\* handed to QTimer.singleShot and is the only thing the press can show, at
\* most once; request_lookup is not emitted, nothing else happens for the
\* press); any other content yields a SelectionEvent carrying the trimmed
\* text.  No event in the router's queue and no confirmation dialog ever
\* holds an empty or untrimmed text.
C6_CaptureNeverYieldsBlank ==
    /\ CaptureContract
    /\ \A i \in 1 .. Len(queue) :
          queue[i].type = "request_lookup" => Trimmed(queue[i].sel)
    /\ \A i \in 1 .. Len(stack) :
          stack[i].kind \in {"confirm", "processEvents"} => Trimmed(stack[i].sel)
    /\ \A r \in Req :
          /\ worker[r] = "SelectionEvent" =>
                Trimmed(sel[r]) /\ ~InQueue("no_selection", r)
                /\ \A i \in 1 .. Len(notices[r]) : notices[r][i] # NoSelectionNotice
          /\ worker[r] = "NoSelection" =>
                /\ notices[r] \in {<<>>, <<NoSelectionNotice>>}
                /\ ~(InQueue("no_selection", r) /\ notices[r] # <<>>)
                /\ \A i \in 1 .. Len(queue) : queue[i].req = r => queue[i].type = "no_selection"
                /\ \A i \in 1 .. Len(stack) : stack[i].req = r => stack[i].kind = "msgbox"
                /\ ~InQueue("request_lookup", r)
                /\ sel[r] = <<>> /\ confirm[r] = "none" /\ loading[r] = "none"
                /\ bg[r] = NoThread /\ presented[r] = <<>> /\ window[r] = NoWindow

C6_Witness ==
    \E r, q \in Req :
        /\ worker[r] = "NoSelection" /\ notices[r] = <<NoSelectionNotice>>
        /\ worker[q] = "SelectionEvent" /\ sel[q] = <<"a", " ", "b">>
        /\ confirm[q] = "asked"

\* what request r's own lookup produced, and what showing it looks like
OwnResult(r) == BgResult(sel[r], resp[r])
OwnPresentation(r) == Presentation(sel[r], OwnResult(r))
Count(b) == IF b THEN 1 ELSE 0

\* each request carries its own selection through the dialog, the lookup
\* thread and the result signal; what is presented for it is the outcome of
\* the lookup of its own selection; and a confirmed request that is not yet
\* presented is still in flight, at exactly one place of its pipeline
OwnOutcomeKept ==
    \A r \in Req :
        /\ \A i \in 1 .. Len(queue) :
              /\ (queue[i].req = r /\ queue[i].type = "request_lookup")
                    => queue[i].sel = sel[r]
              /\ (queue[i].req = r /\ queue[i].type = "lookup_result")
                    => queue[i].sel = sel[r] /\ queue[i].result = OwnResult(r)
        /\ \A i \in 1 .. Len(stack) :
              (stack[i].req = r /\ stack[i].kind \in {"confirm", "processEvents"})
                 => stack[i].sel = sel[r]
        /\ bg[r].pc # "none" => bg[r].sel = sel[r]
        /\ Len(presented[r]) <= 1
        /\ presented[r] # <<>> =>
              /\ presented[r][1] = [sel |-> sel[r], result |-> OwnResult(r)]
              /\ IF OwnPresentation(r).kind = "window"
                 THEN /\ window[r].state \in {"shown", "closed"}
                      /\ window[r].title = <<"Meaning: ">> \o sel[r]
                      /\ window[r].text = OwnResult(r).s
                      /\ notices[r] = <<>>
                 ELSE /\ window[r] = NoWindow
                      /\ notices[r] = << Notice(OwnPresentation(r).kind,
                                                OwnPresentation(r).title,
                                                OwnPresentation(r).text) >>
        /\ (confirm[r] = "yes" /\ presented[r] = <<>>) =>
              Count(OnStack("processEvents", r)) + Count(bg[r].pc = "run")
                 + Count(InQueue("lookup_result", r)) = 1

\* C7: with requests in flight together, under every interleaving of
\* workers, answers and lookups, no request overwrites, replaces or cancels
\* another (OwnOutcomeKept holds in every state), and every confirmed request
\* reaches Presenting with its own outcome unless the application is quit
\* first.
C7_EachRequestKeepsItsOwnOutcome ==
    /\ []OwnOutcomeKept
    /\ \A r \in Req :
          (confirm[r] = "yes") ~>
              (quit \/ (presented[r] # <<>> /\ presented[r][1].result = OwnResult(r)))

\* request 2 is presented while request 1, with another selection, still
\* waits at its confirmation dialog
C7_Witness ==
    /\ MaxPress >= 2
    /\ OnStack("confirm", 1)
    /\ window[2].state = "shown"
    /\ sel[1] # sel[2]

\* C8: for every request, the lookup starts only after its dialog was
\* answered Yes, and its outcome is presented only after its lookup call
\* returned; nothing is looked up unconfirmed or presented without a
\* completed lookup.
C8_ConfirmThenLookupThenPresent ==
    \A r \in Req :
        /\ confirm[r] # "none" => worker[r] = "SelectionEvent"
        /\ (OnStack("processEvents", r) \/ loading[r] # "none" \/ bg[r].pc # "none")
              => confirm[r] = "yes"
        /\ resp[r] # NoAnswer => bg[r].pc = "done"
        /\ (InQueue("lookup_result", r) \/ presented[r] # <<>>) => bg[r].pc = "done"
        /\ (window[r] # NoWindow \/ Contains(open_windows, r)) => presented[r] # <<>>
        /\ (notices[r] # <<>> /\ worker[r] = "SelectionEvent") => presented[r] # <<>>

C8_Witness ==
    \E r, q \in Req :
        /\ confirm[r] = "yes" /\ presented[r] # <<>> /\ window[r].state = "shown"
        /\ confirm[q] = "no"

\* C9: open_windows holds exactly the result windows that are open: every
\* open window is in it and a window that was closed is not.
C9_RegistryHoldsExactlyOpenWindows ==
    \A r \in Req : Contains(open_windows, r) <=> window[r].state = "shown"

\* C10: removing window w from the registry a second time leaves the registry
\* as the first removal left it, removes no other entry, and raises nothing.
C10_RemovalIsIdempotent ==
    /\ rg.pc \in {"once", "twice"} =>
          /\ ~rg.raised
          /\ rg.once = SelectSeq(rg.before, LAMBDA x : x # rg.w)
    /\ rg.pc = "twice" => rg.list = rg.once

C10_Witness ==
    /\ rg.pc = "twice"
    /\ Contains(rg.before, rg.w)
    /\ Len(rg.before) = MaxWindows
    /\ rg.list # rg.before

\* what is in flight: posted events, open dialogs and boxes, running threads
InFlight == <<worker, sel, queue, stack, confirm, loading, bg, resp, presented, notices>>

\* window w goes from shown to closed in this step (Continue reading)
Dismissed(w) == window[w].state = "shown" /\ window'[w].state = "closed"

\* C11: several result windows can be open at once, and dismissing one with
\* Continue reading leaves every other window as it was (open if it was
\* open, its title and text unchanged), leaves every registered window
\* registered, and leaves the requests in flight unchanged.
C11_ContinueLeavesOthersAlone ==
    [][\A w \in Req :
          Dismissed(w) =>
              /\ \A o \in Req \ {w} :
                    /\ window'[o] = window[o]
                    /\ Contains(open_windows, o) => Contains(open_windows', o)
              /\ window'[w].title = window[w].title
              /\ window'[w].text = window[w].text
              /\ UNCHANGED InFlight]_vars

\* window o was opened first and is still open and registered; window w was
\* opened beside it and then dismissed
C11_Witness ==
    \E w, o \in Req :
        /\ w # o
        /\ window[w].state = "closed"
        /\ window[o].state = "shown" /\ open_windows = <<o, w>>
        /\ window[o].title = <<"Meaning: ">> \o sel[o]

\* request r's dialog is answered No in this step
AnsweredNo(r) == confirm[r] = "asked" /\ confirm'[r] = "no"

\* nothing of request r is left or was made after its dialog
NoTrace(r) ==
    /\ loading[r] = "none" /\ bg[r] = NoThread /\ resp[r] = NoAnswer
    /\ ~InQueue("lookup_result", r) /\ ~InQueue("loading_close", r)
    /\ \A i \in 1 .. Len(stack) : stack[i].req # r
    /\ presented[r] = <<>> /\ notices[r] = <<>>
    /\ window[r] = NoWindow /\ ~Contains(open_windows, r)

\* C12: when a request's dialog is answered No, its pipeline ends there: the
\* step only closes the dialog and leaves the queue, the registry, the
\* windows, the notices and every other request unchanged; and from then on
\* the request has no indicator, no lookup thread, no provider answer, no
\* lookup_result, no notice and no window.
C12_NoEndsPipelineSilently ==
    /\ [](\A r \in Req : confirm[r] = "no" => NoTrace(r))
    /\ [][\A r \in Req :
            AnsweredNo(r) =>
                /\ stack' = Pop
                /\ \A o \in Req \ {r} : confirm'[o] = confirm[o]
                /\ UNCHANGED <<hotkey, worker, sel, queue, loading, bg, resp,
                               presented, notices, window, open_windows>>]_vars

\* request r was answered No; request q, answered Yes, is in flight with its
\* result posted and not yet handled
C12_Witness ==
    \E r, q \in Req :
        /\ confirm[r] = "no"
        /\ confirm[q] = "yes" /\ bg[q].pc = "done" /\ InQueue("lookup_result", q)

\* request r took a failure path: nothing was selected, or its lookup failed
CaptureFailed(r) == worker[r] = "NoSelection"
LookupFailed(r) == bg[r].pc = "done" /\ (ErrorAnswer(resp[r]) \/ ~Quotable(sel[r]))

\* request r's failure was shown in a notice, the notice was dismissed, no
\* window was opened for it, and nothing of r is left on the UI thread
NoticedAndIdle(r) ==
    /\ Len(notices[r]) = 1
    /\ window[r] = NoWindow
    /\ \A i \in 1 .. Len(stack) : stack[i].req # r
    /\ \A i \in 1 .. Len(queue) : queue[i].req # r

\* the next hotkey press can be taken
NextPressWorks(r) ==
    (r + 1 \in Req /\ worker[r + 1] = "idle" /\ hotkey = "active" /\ ~quit)
        => ENABLED OnHotkeyPressWorker(r + 1)

\* C13: every failure path (empty selection, network failure, timeout,
\* unexpected status, parse failure) ends in a dismissible notice and the
\* request returns to Idle, under fairness of the event loop, the threads and
\* the user's answers; and a hotkey press after a failed request is processed.
C13_FailureEndsInNoticeThenIdle ==
    /\ \A r \in Req :
          (CaptureFailed(r) \/ LookupFailed(r)) ~> (quit \/ NoticedAndIdle(r))
    /\ [](\A r \in Req : (CaptureFailed(r) \/ LookupFailed(r)) => NextPressWorks(r))

\* the part of C13 that the code keeps: an exception escaping
\* lookup_word_api ends in a notice and Idle
FailurePathsThatReachANotice ==
    /\ \A r \in Req :
          (bg[r].pc = "done" /\ ~Quotable(sel[r])) ~> (quit \/ NoticedAndIdle(r))
    /\ [](\A r \in Req : (CaptureFailed(r) \/ LookupFailed(r)) => NextPressWorks(r))

\* no dialog, notice, indicator or result window is on screen
NothingShown ==
    /\ stack = <<>> /\ open_windows = <<>>
    /\ \A r \in Req : window[r] = NoWindow /\ loading[r] = "none"
    /\ \A r \in {0} \cup Req : notices[r] = <<>>

\* no capture or lookup is under way and no outcome waits to be presented
NothingInFlight ==
    /\ queue = <<>>
    /\ \A r \in Req : worker[r] = "idle" /\ bg[r] = NoThread /\ presented[r] = <<>>

\* C14: quit, from the tray menu or from a result window's Close app button,
\* can be taken in any state and ends the whole process: once quit, nothing
\* is on screen, nothing is in flight, and no step ever changes that.
C14_QuitEndsEverything ==
    /\ [](quit => NothingShown /\ NothingInFlight)
    /\ [][quit => quit' /\ UNCHANGED appVars]_vars
    /\ [](~quit => ENABLED TrayQuit)
    /\ [](\A w \in Req :
            (~quit /\ window[w].state = "shown" /\ ~InputBlocked) => ENABLED CloseApp(w))

C14_Witness == quit /\ NothingShown /\ NothingInFlight

\* request r's outcome is on screen: its result window or its notice
OutcomeOnScreen(r) ==
    presented[r] # <<>> /\ (window[r].state = "shown" \/ OnStack("msgbox", r))

\* the indicator of every confirmed request is closed in the end
IndicatorEventuallyClosed ==
    \A r \in Req : (loading[r] = "open") ~> (quit \/ loading[r] = "closed")

\* C15: the "Looking up" indicator of a request is closed before its outcome
\* is presented: in no state is the request's result window or notice on
\* screen while its indicator is still open; and every indicator is closed in
\* the end.
C15_IndicatorClosedBeforePresentation ==
    /\ [](\A r \in Req : OutcomeOnScreen(r) => loading[r] # "open")
    /\ IndicatorEventuallyClosed

\* the call was made on a well-formed 200 body
Called200 ==
    lk.pc = "done" /\ lk.resp.kind = "http" /\ lk.resp.status = 200 /\ ~lk.resp.malformed

\* the claim's example of a body with nothing to render: no entry has a word,
\* a non-empty phonetic text, or a meaning with a part of speech or a
\* definition
NothingToRender(data) ==
    \A i \in 1 .. Len(data) :
        /\ ~Has(data[i], "word")
        /\ \A j \in 1 .. Len(Get(data[i], "phonetics", <<>>)) :
              ~HasText(data[i]["phonetics"][j])
        /\ \A j \in 1 .. Len(Get(data[i], "meanings", <<>>)) :
              /\ ~Has(data[i]["meanings"][j], "partOfSpeech")
              /\ Get(data[i]["meanings"][j], "definitions", <<>>) = <<>>

\* no entry has a word, a non-empty phonetic text, or any meaning at all
NoWordPhoneticOrMeaning(data) ==
    \A i \in 1 .. Len(data) :
        /\ ~Has(data[i], "word")
        /\ \A j \in 1 .. Len(Get(data[i], "phonetics", <<>>)) :
              ~HasText(data[i]["phonetics"][j])
        /\ Get(data[i], "meanings", <<>>) = <<>>

\* C16 as stated: a 200 body in which no entry has a word, a non-empty
\* phonetic text, or a meaning with a part of speech or a definition gives
\* NotFound.
C16_AsStated ==
    (Called200 /\ NothingToRender(lk.resp.data)) =>
        OutcomeOf(lk.emitted) = "NotFound"

\* C16 as amended: a 200 body gives NotFound exactly when no entry has a
\* word, a non-empty phonetic text, or any meaning: every meaning, even one
\* without part of speech and definitions, yields a "Part of speech: " line.
\* Any other 200 body gives a non-empty text.
C16_NotFoundIffNoLine ==
    Called200 =>
        /\ lk.emitted = lk.result
        /\ IF NoWordPhoneticOrMeaning(lk.resp.data)
           THEN lk.result.none /\ OutcomeOf(lk.emitted) = "NotFound"
           ELSE ~lk.result.none /\ lk.result.s # <<>>
                /\ OutcomeOf(lk.emitted) = "Success"

\* NotFound for a body that is not the empty sequence: its entries have
\* phonetics without text and no meanings
C16_Witness ==
    /\ Called200 /\ lk.result.none
    /\ Len(lk.resp.data) >= 2
    /\ \E i \in 1 .. Len(lk.resp.data) : Get(lk.resp.data[i], "phonetics", <<>>) # <<>>

\* how many lookup_result emissions of request r wait in the event queue
Waiting(r) ==
    Cardinality({i \in 1 .. Len(queue) :
                    queue[i].type = "lookup_result" /\ queue[i].req = r})

\* _handle_lookup_result ran for request r in this step
Consumed(r) == presented'[r] # presented[r] /\ ~quit'

\* C17: bg_lookup emits lookup_result exactly once per confirmed request, on
\* the normal path and on the exception path, and _handle_lookup_result runs
\* exactly once for that emission: before the thread ends there is no
\* emission and no presentation; after it there is exactly one outcome, either
\* waiting in the queue or presented; and a presentation takes the oldest
\* event of the queue, which is that request's emission, off the queue.
C17_OneOutcomeEmittedAndConsumedOnce ==
    /\ [](\A r \in Req :
            /\ bg[r].pc # "done" => Waiting(r) = 0 /\ presented[r] = <<>>
            /\ bg[r].pc = "done" => Waiting(r) + Len(presented[r]) = 1
            /\ bg[r].pc # "none" => confirm[r] = "yes")
    /\ [][\A r \in Req :
            Consumed(r) =>
                /\ queue # <<>> /\ queue' = Tail(queue)
                /\ Head(queue).type = "lookup_result" /\ Head(queue).req = r
                /\ presented'[r] = Append(presented[r],
                                          [sel |-> Head(queue).sel,
                                           result |-> Head(queue).result])]_vars

\* one request went through the exception path (quote() raised, bg_lookup
\* emitted "__ERROR__:...") and one through the normal return; each was
\* presented once
C17_Witness ==
    \E r, q \in Req :
        /\ ~Quotable(sel[r]) /\ Len(presented[r]) = 1
        /\ StartsWith(presented[r][1].result.s, "__ERROR__:")
        /\ Quotable(sel[q]) /\ Len(presented[q]) = 1 /\ Waiting(q) = 0

\* what belongs to the UI thread: dialogs and boxes, the indicator, what was
\* presented, the result windows and the registry
UIState == <<stack, confirm, loading, presented, notices, window, open_windows>>

\* a background thread runs in this step: the registration thread, a hotkey
\* worker or a lookup thread moves on
ThreadStep ==
    /\ ~quit'
    /\ \/ hotkey' # hotkey
       \/ \E r \in Req : worker'[r] # worker[r]
       \/ \E r \in Req : bg[r].pc = "run" /\ bg'[r].pc = "done"

\* the queue only got events appended
OnlyPosted ==
    /\ Len(queue') >= Len(queue)
    /\ SubSeq(queue', 1, Len(queue)) = queue

\* C18: a step of a background thread (hotkey registration, a capture
\* worker, a lookup thread) changes no UI state: all it does to the UI is to
\* post events to the UI thread's queue.  UI state, the registry included,
\* changes only in steps of the UI thread, in which no background thread
\* moves (the one thing the UI thread does to a thread is to start it).
C18_ThreadsOnlyPostToTheUiThread ==
    /\ [][ThreadStep => (UNCHANGED UIState /\ OnlyPosted)]_vars
    /\ [][(UIState' # UIState /\ ~quit') =>
             /\ hotkey' = hotkey /\ worker' = worker /\ resp' = resp /\ sel' = sel
             /\ \A r \in Req : bg'[r] = bg[r] \/ (bg[r] = NoThread /\ bg'[r].pc = "run")]_vars
    /\ [][(open_windows' # open_windows /\ ~quit') =>
             /\ queue # <<>> /\ Head(queue).type = "lookup_result"
             /\ queue' = Tail(queue)]_vars

\* a lookup thread has ended and posted its result and loading.close: the
\* indicator is still open and nothing is presented, while the UI thread sits
\* in another request's dialog
C18_Witness ==
    \E r, q \in Req :
        /\ bg[q].pc = "done" /\ InQueue("lookup_result", q) /\ InQueue("loading_close", q)
        /\ loading[q] = "open" /\ presented[q] = <<>>
        /\ OnStack("confirm", r) /\ hotkey = "active"

\* how many "Hotkey Error" boxes wait in the event queue
HotkeyErrorsQueued ==
    Cardinality({i \in 1 .. Len(queue) : queue[i].type = "hotkey_error"})

\* the registration is attempted once and ends Active or Failed; a failed
\* registration leaves the application running with the hotkey inactive: no
\* capture worker ever runs and quit stays available
RegistrationOnceAndInactiveOnFailure ==
    /\ [][hotkey' # hotkey =>
             \/ hotkey = "pending" /\ hotkey' \in {"active", "failed"}
             \/ quit']_vars
    /\ [](hotkey = "failed" =>
             /\ ~quit /\ ENABLED TrayQuit
             /\ \A r \in Req : worker[r] = "idle" /\ sel[r] = <<>> /\ confirm[r] = "none"
             /\ \A i \in 1 .. Len(queue) : queue[i].type = "hotkey_error")
    /\ [](HotkeyErrorsQueued + Len(notices[0]) <= 1)
    /\ [](hotkey # "failed" => HotkeyErrorsQueued + Len(notices[0]) = 0)

\* C19: hotkey registration is attempted once and ends Active or Failed;
\* when it fails the failure is reported exactly once in a dismissible
\* critical notice, and the application keeps running with the hotkey
\* inactive, so that no SelectionEvent is produced.
C19_RegistrationFailureReportedOnce ==
    /\ RegistrationOnceAndInactiveOnFailure
    /\ [](hotkey = "failed" => HotkeyErrorsQueued + Len(notices[0]) = 1)
    /\ (hotkey = "failed") ~>
          (quit \/ notices[0] = << Notice("critical", <<"Hotkey Error">>,
                                          <<"Failed to register global hotkey">>) >>)

\* C20: no exception escapes Selection Capture.  Whether the combined copy
\* shortcut works, only the single keys work, or both fail, the worker goes
\* on to the settle delay and the clipboard read; a failed read counts as
\* empty content and gives NoSelection; every run ends with a SelectionEvent
\* or NoSelection, decided by the clipboard alone.
C20_CaptureNeverRaises ==
    /\ cp.pc \in {"off", "copy", "sleep", "paste", "done"}
    /\ cp.pc = "done" =>
          /\ cp.outcome \in {"SelectionEvent", "NoSelection"}
          /\ ~cp.read.ok => cp.outcome = "NoSelection"
          /\ cp.outcome = "NoSelection" <=> (~cp.read.ok \/ AllWhite(cp.read.text))
          /\ cp.outcome = WorkerRun(cp.how, cp.read).outcome
          /\ cp.outcome = "SelectionEvent" => Trimmed(cp.text)

\* both forms of the copy simulation failed and the clipboard read failed
\* too: the run ended with NoSelection
C20_Witness ==
    /\ cp.pc = "done" /\ cp.how = "failed" /\ ~cp.read.ok
    /\ cp.outcome = "NoSelection"

====
